---- MODULE Spec2Model ----
(***************************************************************************)
(* State-machine model of the GameClient class of src/game.js: the         *)
(* connection callbacks, the server-message reducer, the avatar loader,    *)
(* the viewport, the renderer and the keyboard controller.                 *)
(*                                                                         *)
(* Lengths are kept in HALF pixels wherever the code divides by two        *)
(* (canvas.width / 2 is a real division in JavaScript), i.e. viewportX and *)
(* viewportY hold twice the value of this.viewportX and this.viewportY.    *)
(***************************************************************************)
EXTENDS Integers, Sequences, FiniteSets, TLC

\* The field names of the records of the model, in alphabetical order.  TLC
\* orders the fields of a record by the first occurrence of their names, so
\* with this list first every record constructor below, which lists its
\* fields alphabetically, is already in TLC's normal form.
Fields ==
    [action : {}, animationFrame : {}, avatar : {}, avatars : {},
     background : {}, calls : {}, cleared : {}, data : {}, direction : {},
     error : {}, facing : {}, frames : {}, height : {}, id : {},
     key : {}, loadedImages : {}, malformed : {}, n : {}, name : {},
     null : {}, player : {}, playerId : {}, players : {}, size : {},
     sprites : {}, src : {}, success : {}, type : {}, undefined : {},
     username : {}, viewport : {}, width : {}, x : {}, y : {}]

VARIABLES
    worldImage,        \* state of the Image held by this.worldImage
    socketState,       \* readyState of this.socket
    connected,         \* this.connected
    myPlayerId,        \* this.myPlayerId
    myPlayer,          \* this.myPlayer (a reference taken at join time)
    players,           \* this.players
    avatars,           \* this.avatars
    viewportX,         \* 2 * this.viewportX
    viewportY,         \* 2 * this.viewportY
    canvas,            \* this.canvas.width / this.canvas.height
    keysPressed,       \* this.keysPressed (the keys mapped to true)
    currentDirection,  \* this.currentDirection
    sent,              \* what socket.send has been given, in order
    decodeCount,       \* how many Image objects were created per avatar frame
    complete,          \* the avatar Image objects that finished decoding
    surface,           \* what the last draw() did to the 2D context
    lastEvent          \* the event whose handler ran last, with its input

vars == <<worldImage, socketState, connected, myPlayerId, myPlayer, players,
          avatars, viewportX, viewportY, canvas, keysPressed,
          currentDirection, sent, decodeCount, complete, surface, lastEvent>>

worldVars == <<myPlayerId, myPlayer, players, avatars, decodeCount>>
viewVars  == <<viewportX, viewportY, canvas>>
inputVars == <<keysPressed, currentDirection>>

(***************************************************************************)
(* Bounds of the model.                                                    *)
(***************************************************************************)
MaxSent    == 4    \* messages given to socket.send in one session
MaxPlayers == 2    \* player ids the server uses
MaxDecodes == 2    \* decodes of one avatar frame
MaxFrames  == 2    \* frames of one direction of an avatar

(***************************************************************************)
(* Program constants.                                                      *)
(***************************************************************************)
worldSize == 2048
NullId    == 0                        \* this.myPlayerId = null
Null      == [null |-> TRUE]          \* this.myPlayer = null
Undefined == [undefined |-> TRUE]     \* a lookup of a missing key
NoDirection == "null"                 \* this.currentDirection = null

Directions == {"up", "down", "left", "right"}
ArrowKeys  == {"ArrowUp", "ArrowDown", "ArrowLeft", "ArrowRight"}
Keys       == ArrowKeys \cup {"a"}    \* the keys of the key events

Max(a, b) == IF a >= b THEN a ELSE b
Min(a, b) == IF a <= b THEN a ELSE b

(***************************************************************************)
(* Outbound wire messages.                                                 *)
(***************************************************************************)
JoinRequest    == [action |-> "join_game", username |-> "Sharan"]
MoveCommand(d) == [action |-> "move", direction |-> d]
StopCommand    == [action |-> "stop"]

(***************************************************************************)
(* Keyboard controller.                                                    *)
(***************************************************************************)
\* the switch of handleKeyDown: arrow key -> direction, anything else null
KeyDirection(key) ==
    CASE key = "ArrowUp"    -> "up"
      [] key = "ArrowDown"  -> "down"
      [] key = "ArrowLeft"  -> "left"
      [] key = "ArrowRight" -> "right"
      [] OTHER              -> NoDirection

\* Object.keys(this.keysPressed).some(k => [...arrows].includes(k))
hasMovementKeys(held) == \E k \in held : k \in ArrowKeys

sendMoveCommand(direction) ==
    /\ sent' = Append(sent, MoveCommand(direction))
    /\ currentDirection' = direction

\* sendStopCommand forgetting to clear the last-sent direction
sendStopCommand_KeepsDirection ==
    /\ sent' = Append(sent, StopCommand)
    /\ currentDirection' = currentDirection

sendStopCommand ==
    /\ sent' = Append(sent, StopCommand)
    /\ currentDirection' = NoDirection

\* handleKeyDown without its connection guard
handleKeyDown_Unguarded(key) ==
    /\ lastEvent' = [key |-> key, type |-> "keydown"]
    /\ IF KeyDirection(key) # NoDirection
       THEN /\ Len(sent) < MaxSent
            /\ keysPressed' = keysPressed \cup {key}
            /\ sendMoveCommand(KeyDirection(key))
       ELSE UNCHANGED <<keysPressed, currentDirection, sent>>
    /\ UNCHANGED <<worldImage, socketState, connected, worldVars, viewVars,
                   surface, complete>>

\* handleKeyDown ignoring the press of a key that is already held
handleKeyDown_SuppressRepeat(key) ==
    /\ lastEvent' = [key |-> key, type |-> "keydown"]
    /\ IF ~connected \/ key \in keysPressed
       THEN UNCHANGED <<keysPressed, currentDirection, sent>>
       ELSE IF KeyDirection(key) # NoDirection
            THEN /\ Len(sent) < MaxSent
                 /\ keysPressed' = keysPressed \cup {key}
                 /\ sendMoveCommand(KeyDirection(key))
            ELSE UNCHANGED <<keysPressed, currentDirection, sent>>
    /\ UNCHANGED <<worldImage, socketState, connected, worldVars, viewVars,
                   surface, complete>>

handleKeyDown(key) ==
    /\ lastEvent' = [key |-> key, type |-> "keydown"]
    /\ IF ~connected
       THEN UNCHANGED <<keysPressed, currentDirection, sent>>
       ELSE IF KeyDirection(key) # NoDirection
            THEN /\ Len(sent) < MaxSent
                 /\ keysPressed' = keysPressed \cup {key}
                 /\ sendMoveCommand(KeyDirection(key))
            ELSE UNCHANGED <<keysPressed, currentDirection, sent>>
    /\ UNCHANGED <<worldImage, socketState, connected, worldVars, viewVars,
                   surface, complete>>

\* handleKeyUp sending stop on every release of a held key
handleKeyUp_AlwaysStop(key) ==
    /\ lastEvent' = [key |-> key, type |-> "keyup"]
    /\ IF ~connected
       THEN UNCHANGED <<keysPressed, currentDirection, sent>>
       ELSE IF key \in keysPressed
            THEN /\ keysPressed' = keysPressed \ {key}
                 /\ Len(sent) < MaxSent
                 /\ sendStopCommand
            ELSE UNCHANGED <<keysPressed, currentDirection, sent>>
    /\ UNCHANGED <<worldImage, socketState, connected, worldVars, viewVars,
                   surface, complete>>

handleKeyUp(key) ==
    /\ lastEvent' = [key |-> key, type |-> "keyup"]
    /\ IF ~connected
       THEN UNCHANGED <<keysPressed, currentDirection, sent>>
       ELSE IF key \in keysPressed
            THEN /\ keysPressed' = keysPressed \ {key}
                 /\ IF ~hasMovementKeys(keysPressed \ {key})
                    THEN /\ Len(sent) < MaxSent
                         /\ sendStopCommand
                    ELSE UNCHANGED <<currentDirection, sent>>
            ELSE UNCHANGED <<keysPressed, currentDirection, sent>>
    /\ UNCHANGED <<worldImage, socketState, connected, worldVars, viewVars,
                   surface, complete>>

(***************************************************************************)
(* Connection callbacks.                                                   *)
(***************************************************************************)
\* joinGame sending the request again on top of an earlier one
joinGame_Twice == sent' = sent \o <<JoinRequest, JoinRequest>>

joinGame == sent' = Append(sent, JoinRequest)

\* an open callback that also fires on a channel that was closed
SocketOpen_Reconnect ==
    /\ socketState \in {"CONNECTING", "CLOSED"}
    /\ Len(sent) < MaxSent
    /\ socketState' = "OPEN"
    /\ connected' = TRUE
    /\ joinGame
    /\ lastEvent' = [type |-> "open"]
    /\ UNCHANGED <<worldImage, worldVars, viewVars, inputVars, surface,
                   complete>>

\* socket.onopen
SocketOpen ==
    /\ socketState = "CONNECTING"
    /\ socketState' = "OPEN"
    /\ connected' = TRUE
    /\ joinGame
    /\ lastEvent' = [type |-> "open"]
    /\ UNCHANGED <<worldImage, worldVars, viewVars, inputVars, surface,
                   complete>>

\* socket.onclose (also fired when the connection cannot be established)
SocketClose ==
    /\ socketState \in {"CONNECTING", "OPEN"}
    /\ socketState' = "CLOSED"
    /\ connected' = FALSE
    /\ lastEvent' = [type |-> "close"]
    /\ UNCHANGED <<worldImage, worldVars, viewVars, inputVars, sent, surface,
                   complete>>

(***************************************************************************)
(* JavaScript object helpers.                                              *)
(***************************************************************************)
\* obj[key] on a plain object: undefined when the key is missing
Lookup(obj, key) == IF key \in DOMAIN obj THEN obj[key] ELSE Undefined

\* Object.assign keeping the target's value for a key both have
ObjectAssign_KeepTarget(target, source) ==
    [k \in DOMAIN target \cup DOMAIN source |->
        IF k \in DOMAIN target THEN target[k] ELSE source[k]]

\* Object.assign(target, source)
ObjectAssign(target, source) ==
    [k \in DOMAIN target \cup DOMAIN source |->
        IF k \in DOMAIN source THEN source[k] ELSE target[k]]

\* obj[key] = value
SetKey(obj, key, value) ==
    [k \in DOMAIN obj \cup {key} |-> IF k = key THEN value ELSE obj[k]]

\* delete removing the key and every key above it
DeleteKey_AndAbove(obj, key) ==
    [k \in {j \in DOMAIN obj : j < key} |-> obj[k]]

\* delete obj[key]
DeleteKey(obj, key) == [k \in DOMAIN obj \ {key} |-> obj[k]]

\* !value for the values this.myPlayer takes
Falsy(value) == value \in {Null, Undefined}

(***************************************************************************)
(* Avatar loader.  An avatar record as the server sends it has the fields  *)
(* name and frames; avatar.loadedImages is undefined until the loader adds *)
(* it.  An image handle is [src, n]: the frame data it decodes and the     *)
(* number of the Image object created for that frame slot.                 *)
(***************************************************************************)
\* the loader without its loadedImages check
NotLoaded_Always(avatar) == TRUE

\* !avatar.loadedImages
NotLoaded(avatar) == "loadedImages" \notin DOMAIN avatar

\* the body of the forEach of loadAvatarImages, for one avatar
LoadOne(key, avatar, dc) ==
    IF NotLoaded(avatar)
    THEN [frames |-> avatar.frames,
          loadedImages |->
            [d \in DOMAIN avatar.frames |->
                [i \in 1..Len(avatar.frames[d]) |->
                    [n |-> dc[<<key, d, i>>] + 1, src |-> avatar.frames[d][i]]]],
          name |-> avatar.name]
    ELSE avatar

\* this.avatars after loadAvatarImages()
LoadedAvatars(avs, dc) == [k \in DOMAIN avs |-> LoadOne(k, avs[k], dc)]

\* the frame slots for which loadAvatarImages() creates an Image
NewDecodes(avs) ==
    {s \in (DOMAIN avs) \X Directions \X (1..MaxFrames) :
        /\ NotLoaded(avs[s[1]])
        /\ s[2] \in DOMAIN avs[s[1]].frames
        /\ s[3] <= Len(avs[s[1]].frames[s[2]])}

\* the decode counters after loadAvatarImages()
CountedDecodes(avs, dc) ==
    [s \in DOMAIN dc |-> IF s \in NewDecodes(avs) THEN dc[s] + 1 ELSE dc[s]]

(***************************************************************************)
(* Viewport (half pixels).                                                 *)
(***************************************************************************)
\* Math.max(0, Math.min(pos - size / 2, worldSize - size)), times two
ClampedOffset(pos, size) ==
    Max(0, Min(2 * pos - size, 2 * (worldSize - size)))

\* this.viewportX / this.viewportY after updateViewport()
ViewportAfter(mp, cv, vx, vy) ==
    IF Falsy(mp)
    THEN [x |-> vx, y |-> vy]
    ELSE [x |-> ClampedOffset(mp.x, cv.width),
          y |-> ClampedOffset(mp.y, cv.height)]

(***************************************************************************)
(* Renderer.  surface records what the last draw() did: whether clearRect  *)
(* ran, whether the background was painted, and for which players          *)
(* drawPlayer reached its drawImage / text calls.                          *)
(***************************************************************************)
\* drawPlayer(player) gets past all of its early returns
DrawsPlayer(player, avs, vp, cv) ==
    LET avatar  == Lookup(avs, player.avatar)
        screenX == 2 * player.x - vp.x
        screenY == 2 * player.y - vp.y
        \* player.animationFrame || 0
        frameIndex == IF "animationFrame" \in DOMAIN player
                      THEN player.animationFrame ELSE 0
    IN  /\ avatar # Undefined
        /\ ~NotLoaded(avatar)
        /\ ~(\/ screenX < -100 \/ screenX > 2 * (cv.width + 50)
             \/ screenY < -100 \/ screenY > 2 * (cv.height + 50))
        /\ player.facing \in DOMAIN avatar.loadedImages
        /\ frameIndex + 1 <= Len(avatar.loadedImages[player.facing])

\* the Image object drawPlayer hands to drawImage, as slot and serial number
SpriteOf(player, avs) ==
    LET frameIndex == IF "animationFrame" \in DOMAIN player
                      THEN player.animationFrame ELSE 0
    IN  <<<<player.avatar, player.facing, frameIndex + 1>>,
          avs[player.avatar].loadedImages[player.facing][frameIndex + 1].n>>

\* the 2D context before the first draw()
NothingDrawn ==
    [background |-> FALSE, cleared |-> FALSE, players |-> {}, sprites |-> {},
     viewport |-> [x |-> 0, y |-> 0]]

\* the effect of draw() on the 2D context: players are those drawPlayer
\* reaches drawImage for, sprites those whose image drawImage can paint
\* (an image that has not finished decoding paints nothing), viewport the
\* source origin given to the background blit
Drawn(img, pl, avs, vp, cv, done, before) ==
    IF img = "null"
    THEN before
    ELSE LET ids == \* drawImage throws on an image in the broken state
                    IF img = "broken" THEN {}
                    ELSE {id \in DOMAIN pl : DrawsPlayer(pl[id], avs, vp, cv)}
         IN  [background |-> (img = "loaded"),
              cleared |-> TRUE,
              players |-> ids,
              sprites |-> {id \in ids : SpriteOf(pl[id], avs) \in done},
              viewport |-> vp]

\* draw() followed by updateViewport(): the draw sees the old offsets
updateViewportAndDraw_DrawFirst(mp, pl, avs, cv) ==
    LET vp == ViewportAfter(mp, cv, viewportX, viewportY)
    IN  /\ viewportX' = vp.x
        /\ viewportY' = vp.y
        /\ surface' = Drawn(worldImage, pl, avs,
                            [x |-> viewportX, y |-> viewportY], cv, complete,
                            surface)

\* updateViewport() followed by draw(), on the state after the handler's
\* own assignments
updateViewportAndDraw(mp, pl, avs, cv) ==
    LET vp == ViewportAfter(mp, cv, viewportX, viewportY)
    IN  /\ viewportX' = vp.x
        /\ viewportY' = vp.y
        /\ surface' = Drawn(worldImage, pl, avs, vp, cv, complete, surface)

\* draw() alone
draw(pl, avs) ==
    /\ surface' = Drawn(worldImage, pl, avs,
                        [x |-> viewportX, y |-> viewportY], canvas, complete,
                        surface)
    /\ UNCHANGED <<viewportX, viewportY>>

(***************************************************************************)
(* World-state reducer.                                                    *)
(***************************************************************************)
\* the join branch merging the snapshot into the mappings it should replace
joinGameSucceeded_Merge(message) ==
    LET pl   == ObjectAssign(players, message.players)
        avs0 == ObjectAssign(avatars, message.avatars)
        avs  == LoadedAvatars(avs0, decodeCount)
        mp   == Lookup(pl, message.playerId)
    IN  /\ myPlayerId' = message.playerId
        /\ players' = pl
        /\ avatars' = avs
        /\ myPlayer' = mp
        /\ decodeCount' = CountedDecodes(avs0, decodeCount)
        /\ updateViewportAndDraw(mp, pl, avs, canvas)

joinGameSucceeded(message) ==
    LET avs == LoadedAvatars(message.avatars, decodeCount)
        mp  == Lookup(message.players, message.playerId)
    IN  /\ myPlayerId' = message.playerId
        /\ players' = message.players
        /\ avatars' = avs
        /\ myPlayer' = mp
        /\ decodeCount' = CountedDecodes(message.avatars, decodeCount)
        /\ updateViewportAndDraw(mp, message.players, avs, canvas)

\* message.player.id and message.avatar.name throw a TypeError when the
\* field is absent; the catch of onmessage ends the handler at that point,
\* after whatever the earlier statements wrote
playerJoined(message) ==
    IF "player" \notin DOMAIN message
    THEN UNCHANGED <<worldVars, viewportX, viewportY, surface>>
    ELSE IF "avatar" \notin DOMAIN message
    THEN /\ players' = SetKey(players, message.player.id, message.player)
         /\ UNCHANGED <<myPlayerId, myPlayer, avatars, decodeCount,
                        viewportX, viewportY, surface>>
    ELSE
    LET pl   == SetKey(players, message.player.id, message.player)
        avs0 == SetKey(avatars, message.avatar.name, message.avatar)
        avs  == LoadedAvatars(avs0, decodeCount)
    IN  /\ players' = pl
        /\ avatars' = avs
        /\ decodeCount' = CountedDecodes(avs0, decodeCount)
        /\ draw(pl, avs)
        /\ UNCHANGED <<myPlayerId, myPlayer>>

playersMoved(message) ==
    LET pl == ObjectAssign(players, message.players)
    IN  /\ players' = pl
        /\ updateViewportAndDraw(myPlayer, pl, avatars, canvas)
        /\ UNCHANGED <<myPlayerId, myPlayer, avatars, decodeCount>>

playerLeft(message) ==
    LET pl == DeleteKey(players, message.playerId)
    IN  /\ players' = pl
        /\ draw(pl, avatars)
        /\ UNCHANGED <<myPlayerId, myPlayer, avatars, decodeCount>>

\* the reducer resetting the roster when a join fails
handleServerMessage_FailureResets(message) ==
    CASE message.action = "join_game" /\ message.success ->
            joinGameSucceeded(message)
      [] message.action = "join_game" /\ ~message.success ->
            /\ players' = <<>>
            /\ myPlayerId' = NullId
            /\ UNCHANGED <<myPlayer, avatars, decodeCount, viewportX,
                           viewportY, surface>>
      [] message.action = "player_joined" -> playerJoined(message)
      [] message.action = "players_moved" -> playersMoved(message)
      [] message.action = "player_left" -> playerLeft(message)
      [] OTHER -> UNCHANGED <<worldVars, viewportX, viewportY, surface>>

\* the reducer redrawing on an action it does not know
handleServerMessage_UnknownRedraws(message) ==
    CASE message.action = "join_game" /\ message.success ->
            joinGameSucceeded(message)
      [] message.action = "join_game" /\ ~message.success ->
            UNCHANGED <<worldVars, viewportX, viewportY, surface>>
      [] message.action = "player_joined" -> playerJoined(message)
      [] message.action = "players_moved" -> playersMoved(message)
      [] message.action = "player_left" -> playerLeft(message)
      [] OTHER -> /\ draw(players, avatars)
                  /\ UNCHANGED worldVars

handleServerMessage(message) ==
    CASE message.action = "join_game" /\ message.success ->
            joinGameSucceeded(message)
      [] message.action = "join_game" /\ ~message.success ->
            UNCHANGED <<worldVars, viewportX, viewportY, surface>>
      [] message.action = "player_joined" -> playerJoined(message)
      [] message.action = "players_moved" -> playersMoved(message)
      [] message.action = "player_left" -> playerLeft(message)
      [] OTHER -> UNCHANGED <<worldVars, viewportX, viewportY, surface>>

\* socket.onmessage: JSON.parse, then the reducer, inside try / catch
onmessage(data) ==
    /\ socketState = "OPEN"
    /\ lastEvent' = [data |-> data, type |-> "message"]
    /\ IF "action" \in DOMAIN data
       THEN /\ handleServerMessage(data)
            /\ \A s \in DOMAIN decodeCount : decodeCount'[s] <= MaxDecodes
       ELSE UNCHANGED <<worldVars, viewportX, viewportY, surface>>
    /\ UNCHANGED <<worldImage, socketState, connected, canvas, inputVars, sent,
                   complete>>

(***************************************************************************)
(* Canvas and background image.                                            *)
(***************************************************************************)
\* a resize listener that also empties the roster
resize_DropsPlayers(size) ==
    /\ canvas' = size
    /\ players' = <<>>
    /\ updateViewportAndDraw(myPlayer, <<>>, avatars, size)
    /\ lastEvent' = [size |-> size, type |-> "resize"]
    /\ UNCHANGED <<worldImage, socketState, connected, myPlayerId, myPlayer,
                   avatars, decodeCount, inputVars, sent, complete>>

\* the resize listener of setupCanvas
resize(size) ==
    /\ canvas' = size
    /\ updateViewportAndDraw(myPlayer, players, avatars, size)
    /\ lastEvent' = [size |-> size, type |-> "resize"]
    /\ UNCHANGED <<worldImage, socketState, connected, worldVars, inputVars,
                   sent, complete>>

\* worldImage.onload
WorldImageLoaded ==
    /\ worldImage = "loading"
    /\ worldImage' = "loaded"
    /\ surface' = Drawn("loaded", players, avatars,
                        [x |-> viewportX, y |-> viewportY], canvas, complete,
                        surface)
    /\ lastEvent' = [type |-> "load"]
    /\ UNCHANGED <<socketState, connected, worldVars, viewVars, inputVars,
                   sent, complete>>

\* worldImage.onerror
WorldImageFailed ==
    /\ worldImage = "loading"
    /\ worldImage' = "broken"
    /\ lastEvent' = [type |-> "error"]
    /\ UNCHANGED <<socketState, connected, worldVars, viewVars, inputVars,
                   sent, surface, complete>>

\* an avatar Image finishes decoding its data URL; loadAvatarImages gives
\* the Image no onload handler, so nothing else happens
imageDecoded(image) ==
    /\ complete' = complete \cup {image}
    /\ lastEvent' = [type |-> "decoded"]
    /\ UNCHANGED <<worldImage, socketState, connected, worldVars, viewVars,
                   inputVars, sent, surface>>

KeyDown == \E key \in Keys : handleKeyDown(key)
KeyUp   == \E key \in Keys : handleKeyUp(key)

(***************************************************************************)
(* Inputs: window sizes and what the server sends.                         *)
(***************************************************************************)
WindowSizes == {[height |-> 600, width |-> 800],
                [height |-> 768, width |-> 1365],
                [height |-> 2100, width |-> 2560]}

Ids         == 1..MaxPlayers
AvatarNames == {"cat", "dog"}
Slots       == AvatarNames \X Directions \X (1..MaxFrames)

Near == [x |-> 100, y |-> 100]
Far  == [x |-> 2000, y |-> 1900]

\* avatar records as the server sends them: "cat" has one frame for each
\* direction, "dog" has MaxFrames frames and only faces down
ServerAvatar(name) ==
    [frames |-> IF name = "cat"
                THEN [d \in Directions |-> <<1>>]
                ELSE [d \in {"down"} |-> [i \in 1..MaxFrames |-> i]],
     name |-> name]

\* player records as the server sends them
PlayerRecs(positions, names) ==
    {[animationFrame |-> 0, avatar |-> a, facing |-> "down", id |-> id,
      x |-> p.x, y |-> p.y] : id \in Ids, p \in positions, a \in names}

\* id -> Player mappings whose keys are the records' ids
PlayerMaps(recs) ==
    UNION {{pm \in [S -> recs] : \A id \in S : pm[id].id = id} : S \in SUBSET Ids}

\* name -> Avatar mappings
AvatarMaps(names) == {[n \in S |-> ServerAvatar(n)] : S \in SUBSET names}

RecvJoinGame(maps, avatarMaps) ==
    \E id \in Ids, pl \in maps, avs \in avatarMaps :
        onmessage([action |-> "join_game", avatars |-> avs, playerId |-> id,
                   players |-> pl, success |-> TRUE])

RecvJoinFailed ==
    onmessage([action |-> "join_game", error |-> "full", success |-> FALSE])

\* the avatar sent along is the one the player record names
RecvPlayerJoined(recs) ==
    \E player \in recs :
        onmessage([action |-> "player_joined",
                   avatar |-> ServerAvatar(player.avatar),
                   player |-> player])

\* player_joined payloads that lack a field the handler dereferences
RecvPlayerJoinedPartial(recs) ==
    \/ \E player \in recs :
          onmessage([action |-> "player_joined", player |-> player])
    \/ \E name \in AvatarNames :
          onmessage([action |-> "player_joined", avatar |-> ServerAvatar(name)])

RecvPlayersMoved(maps) ==
    \E pl \in maps : onmessage([action |-> "players_moved", players |-> pl])

RecvPlayerLeft ==
    \E id \in Ids : onmessage([action |-> "player_left", playerId |-> id])

RecvUnknown == onmessage([action |-> "ping"])

\* a payload JSON.parse rejects
RecvMalformed == onmessage([malformed |-> TRUE])

Resize == \E size \in WindowSizes : resize(size)

\* the Image objects created so far that are still decoding
Pending ==
    {image \in Slots \X (1..MaxDecodes) :
        /\ image[2] <= decodeCount[image[1]]
        /\ image \notin complete}

ImageDecoded == \E image \in Pending : imageDecoded(image)

Init ==
    /\ worldImage = "loading"
    /\ socketState = "CONNECTING"
    /\ connected = FALSE
    /\ myPlayerId = NullId
    /\ myPlayer = Null
    /\ players = <<>>
    /\ avatars = <<>>
    /\ viewportX = 0
    /\ viewportY = 0
    /\ canvas \in WindowSizes
    /\ keysPressed = {}
    /\ currentDirection = NoDirection
    /\ sent = <<>>
    /\ decodeCount = [s \in Slots |-> 0]
    /\ complete = {}
    /\ surface = NothingDrawn
    /\ lastEvent = [type |-> "init"]

\* the state after construction in a window that is never resized
InitFixedWindow == Init /\ canvas = [height |-> 600, width |-> 800]

(***************************************************************************)
(* Specifications.  The keyboard controller and the world state share only *)
(* the connection; each specification lets the server and the user vary    *)
(* the inputs its properties are about.                                    *)
(***************************************************************************)
AllRecs    == PlayerRecs({Near, Far}, AvatarNames)
AllMaps    == PlayerMaps(AllRecs)
AllAvatars == AvatarMaps(AvatarNames)

Next ==
    \/ SocketOpen \/ SocketClose
    \/ RecvJoinGame(AllMaps, AllAvatars)
    \/ RecvJoinFailed
    \/ RecvPlayerJoined(AllRecs)
    \/ RecvPlayerJoinedPartial(AllRecs)
    \/ RecvPlayersMoved(AllMaps)
    \/ RecvPlayerLeft \/ RecvUnknown \/ RecvMalformed
    \/ Resize \/ WorldImageLoaded \/ WorldImageFailed
    \/ ImageDecoded
    \/ KeyDown \/ KeyUp

Spec == Init /\ [][Next]_vars

\* keyboard and connection
NextInput == SocketOpen \/ SocketClose \/ KeyDown \/ KeyUp

SpecInput == InitFixedWindow /\ [][NextInput]_vars

\* positions, canvas, viewport and background image
ViewRecs == PlayerRecs({Near, Far}, {"cat"})
ViewMaps == PlayerMaps(ViewRecs)

NextViewport ==
    \/ SocketOpen \/ SocketClose
    \/ RecvJoinGame(ViewMaps, {<<>>})
    \/ RecvPlayersMoved(ViewMaps)
    \/ RecvPlayerLeft
    \/ Resize \/ WorldImageLoaded \/ WorldImageFailed

SpecViewport == Init /\ [][NextViewport]_vars

\* roster, avatars and decodes
RosterRecs == PlayerRecs({Near}, AvatarNames)
RosterMaps == PlayerMaps(PlayerRecs({Near}, {"cat"}))

NextRoster ==
    \/ SocketOpen \/ SocketClose
    \/ RecvJoinGame(RosterMaps, AllAvatars)
    \/ RecvJoinFailed
    \/ RecvPlayerJoined(RosterRecs)
    \/ RecvPlayerLeft \/ RecvUnknown \/ RecvMalformed

SpecRoster == InitFixedWindow /\ [][NextRoster]_vars

\* the avatar loader on its own: avatar records are stored as the reducer
\* stores them (one by player_joined, a whole mapping by join_game), and
\* loadAvatarImages() is called any number of times
MaxCalls == 3

replaceAvatars(avs) ==
    /\ avatars' = avs
    /\ lastEvent' = [avatars |-> avs, type |-> "replace"]
    /\ UNCHANGED <<worldImage, socketState, connected, myPlayerId, myPlayer,
                   players, decodeCount, viewVars, inputVars, sent, surface,
                   complete>>

storeAvatar(name) ==
    /\ avatars' = SetKey(avatars, name, ServerAvatar(name))
    /\ lastEvent' = [name |-> name, type |-> "store"]
    /\ UNCHANGED <<worldImage, socketState, connected, myPlayerId, myPlayer,
                   players, decodeCount, viewVars, inputVars, sent, surface,
                   complete>>

loadAvatarImages ==
    /\ avatars' = LoadedAvatars(avatars, decodeCount)
    /\ decodeCount' = CountedDecodes(avatars, decodeCount)
    /\ \A s \in Slots : decodeCount'[s] <= MaxDecodes
    /\ lastEvent' = [calls |-> IF lastEvent.type = "loadAvatarImages"
                               THEN lastEvent.calls + 1 ELSE 1,
                     type |-> "loadAvatarImages"]
    /\ lastEvent'.calls <= MaxCalls
    /\ UNCHANGED <<worldImage, socketState, connected, myPlayerId, myPlayer,
                   players, viewVars, inputVars, sent, surface, complete>>

StoreAvatar == \E name \in AvatarNames : storeAvatar(name)

ReplaceAvatars == \E avs \in AllAvatars : replaceAvatars(avs)

NextLoader == StoreAvatar \/ ReplaceAvatars \/ loadAvatarImages

SpecLoader == InitFixedWindow /\ [][NextLoader]_vars

(***************************************************************************)
(* Properties of the keyboard controller and the connection (SpecInput).   *)
(***************************************************************************)
IsKeyEvent(e)  == e.type \in {"keydown", "keyup"}
IsCommand(msg) == msg.action \in {"move", "stop"}

\* C5: while connected, the release of a directional key that is recorded as
\* held sends exactly one stop command when no directional key is held after
\* it, and sends nothing when one still is.
C5_StopIffNoKeyHeld ==
    [][(/\ connected
        /\ lastEvent'.type = "keyup"
        /\ lastEvent'.key \in ArrowKeys
        /\ lastEvent'.key \in keysPressed)
       => IF keysPressed' \cap ArrowKeys = {}
          THEN sent' = Append(sent, StopCommand)
          ELSE sent' = sent]_vars

\* press Up, press Down, release Up, release Down: one stop, sent last
C5_Witness ==
    /\ lastEvent = [key |-> "ArrowDown", type |-> "keyup"]
    /\ keysPressed = {}
    /\ sent = <<JoinRequest, MoveCommand("up"), MoveCommand("down"),
                StopCommand>>

\* C6: a step taken while the connection is not ready sends no move and no
\* stop command and leaves the held keys and the last-sent direction alone.
C6_NoCommandWhileNotReady ==
    [][~connected
       => /\ keysPressed' = keysPressed
          /\ currentDirection' = currentDirection
          /\ SubSeq(sent', 1, Len(sent)) = sent
          /\ \A i \in (Len(sent) + 1)..Len(sent') : ~IsCommand(sent'[i])]_vars

\* an arrow key handled after the channel closed with a key still recorded
C6_Witness ==
    /\ socketState = "CLOSED"
    /\ ~connected
    /\ IsKeyEvent(lastEvent)
    /\ lastEvent.key \in ArrowKeys
    /\ keysPressed # {}
    /\ lastEvent.key \notin keysPressed

\* C7: the join request carrying the fixed name is sent when the channel
\* opens, it is the first message sent and it is sent once.
C7_JoinFirstAndOnce ==
    /\ (socketState = "OPEN" => Len(sent) >= 1)
    /\ (Len(sent) >= 1 => sent[1] = JoinRequest)
    /\ \A i \in 2..Len(sent) : sent[i].action # "join_game"
    /\ (lastEvent.type = "open" => sent = <<JoinRequest>>)

\* commands were sent after the join request and the channel closed
C7_Witness ==
    /\ socketState = "CLOSED"
    /\ Len(sent) >= 3
    /\ sent[1] = JoinRequest

(***************************************************************************)
(* Properties of the viewport and the renderer (SpecViewport).             *)
(***************************************************************************)
IsMessage(e, action) ==
    /\ e.type = "message"
    /\ "action" \in DOMAIN e.data
    /\ e.data.action = action

\* C1: the stored viewport offsets lie between 0 and
\* max(0, worldSize - canvas size) on each axis, in every state.
C1_ViewportWithinWorld ==
    /\ 0 <= viewportX
    /\ viewportX <= 2 * Max(0, worldSize - canvas.width)
    /\ 0 <= viewportY
    /\ viewportY <= 2 * Max(0, worldSize - canvas.height)

\* C2: after a join that found the local player, once a players_moved
\* message that contains the local id has been processed the offsets are the
\* clamped centering of the position stored under the local id.
C2_ViewportFollowsLocalPlayer ==
    (/\ IsMessage(lastEvent, "players_moved")
     /\ ~Falsy(myPlayer)
     /\ myPlayerId \in DOMAIN lastEvent.data.players)
    => /\ viewportX = ClampedOffset(players[myPlayerId].x, canvas.width)
       /\ viewportY = ClampedOffset(players[myPlayerId].y, canvas.height)

\* C3: a players_moved message with mapping U turns the mapping M into one
\* over keys(M) \cup keys(U) that agrees with U on keys(U) and with M
\* elsewhere.
C3_PlayersMovedMerges ==
    [][IsMessage(lastEvent', "players_moved")
       => LET U == lastEvent'.data.players
          IN  /\ DOMAIN players' = DOMAIN players \cup DOMAIN U
              /\ \A id \in DOMAIN U : players'[id] = U[id]
              /\ \A id \in DOMAIN players \ DOMAIN U :
                    players'[id] = players[id]]_vars

\* a partial update was merged: one entry comes from it, another and
\* different one was left alone
C3_Witness ==
    /\ IsMessage(lastEvent, "players_moved")
    /\ \E a \in DOMAIN players \ DOMAIN lastEvent.data.players :
       \E b \in DOMAIN lastEvent.data.players :
            /\ players[b] = lastEvent.data.players[b]
            /\ players[a].x # players[b].x

\* C10: as long as the background image has not finished loading, no draw
\* has cleared the surface, painted the background or drawn a player.
C10_NoDrawBeforeBackground ==
    worldImage # "loaded"
    => surface = NothingDrawn

(***************************************************************************)
(* Properties of the roster and the avatar loader (SpecRoster, SpecLoader).*)
(***************************************************************************)
\* C4: a player_left message removes the entry of its id and nothing else
\* from the players mapping, and leaves the avatars mapping as it was.
C4_PlayerLeftRemovesOne ==
    [][IsMessage(lastEvent', "player_left")
       => LET id == lastEvent'.data.playerId
          IN  /\ DOMAIN players' = DOMAIN players \ {id}
              /\ \A k \in DOMAIN players' : players'[k] = players[k]
              /\ avatars' = avatars
              /\ (id \notin DOMAIN players => players' = players)]_vars

\* a leave of an id that is not in a mapping that has other entries
C4_Witness ==
    /\ IsMessage(lastEvent, "player_left")
    /\ lastEvent.data.playerId \notin DOMAIN players
    /\ \E k \in DOMAIN players : k > lastEvent.data.playerId
    /\ avatars # <<>>

\* C8: whatever join_game and player_joined messages arrive, no frame of an
\* avatar name is decoded more than once.
C8_EachFrameDecodedOnce == \A s \in Slots : decodeCount[s] <= 1

\* C9: a call of the loader that follows another call of the loader starts
\* no decode and leaves every avatar, with its image handles, as it was;
\* after any call every frame of every avatar has one handle, the one of
\* its latest decode.
C9_SecondLoadIsNoOp ==
    [][lastEvent'.type = "loadAvatarImages"
       => /\ \A name \in DOMAIN avatars' :
                LET avatar == avatars'[name]
                IN  /\ "loadedImages" \in DOMAIN avatar
                    /\ DOMAIN avatar.loadedImages = DOMAIN avatar.frames
                    /\ \A d \in DOMAIN avatar.frames :
                        /\ Len(avatar.loadedImages[d]) = Len(avatar.frames[d])
                        /\ \A i \in 1..Len(avatar.frames[d]) :
                            avatar.loadedImages[d][i].src = avatar.frames[d][i]
          /\ lastEvent.type = "loadAvatarImages"
             => /\ avatars' = avatars
                /\ decodeCount' = decodeCount]_vars

\* the loader ran twice in a row on two avatars whose frames were decoded
\* once
C9_Witness ==
    /\ lastEvent.type = "loadAvatarImages"
    /\ lastEvent.calls = 2
    /\ DOMAIN avatars = AvatarNames
    /\ \A s \in Slots :
         decodeCount[s] = IF /\ s[2] \in DOMAIN avatars[s[1]].frames
                             /\ s[3] <= Len(avatars[s[1]].frames[s[2]])
                          THEN 1 ELSE 0


(***************************************************************************)
(* Properties of the join branch of the reducer (SpecRoster).              *)
(***************************************************************************)
IsJoinResult(e, success) ==
    /\ IsMessage(e, "join_game")
    /\ e.data.success = success

\* the frame slots of the avatars of a mapping
SlotsOf(avs) ==
    {s \in Slots : /\ s[1] \in DOMAIN avs
                   /\ s[2] \in DOMAIN avs[s[1]].frames
                   /\ s[3] <= Len(avs[s[1]].frames[s[2]])}

\* C11: a successful join_game makes the players mapping the snapshot's,
\* makes the avatars mapping the snapshot's avatars (nothing else survives),
\* records the snapshot's playerId and starts one decode for every frame of
\* the snapshot's avatars.
C11_JoinReplacesWorld ==
    [][IsJoinResult(lastEvent', TRUE)
       => LET message == lastEvent'.data
          IN  /\ players' = message.players
              /\ DOMAIN avatars' = DOMAIN message.avatars
              /\ \A name \in DOMAIN message.avatars :
                    /\ avatars'[name].name = message.avatars[name].name
                    /\ avatars'[name].frames = message.avatars[name].frames
                    /\ "loadedImages" \in DOMAIN avatars'[name]
              /\ myPlayerId' = message.playerId
              /\ \A s \in Slots :
                    decodeCount'[s] = decodeCount[s] +
                        (IF s \in SlotsOf(message.avatars) THEN 1 ELSE 0)]_vars

\* a join whose snapshot dropped a player and an avatar that were known
C11_Witness ==
    /\ IsJoinResult(lastEvent, TRUE)
    /\ players = lastEvent.data.players
    /\ DOMAIN players = {1}
    /\ DOMAIN avatars = {"cat"}
    /\ \E s \in Slots : s[1] = "dog" /\ decodeCount[s] > 0

JoinRequestsIn(messages) ==
    Cardinality({i \in 1..Len(messages) : messages[i].action = "join_game"})

\* C12: a failed join_game changes none of players, avatars, local id,
\* local player, viewport and connection flag and sends nothing; no step
\* ever puts a second join request on the channel.
C12_FailedJoinChangesNothing ==
    [][/\ IsJoinResult(lastEvent', FALSE)
          => UNCHANGED <<players, avatars, myPlayerId, myPlayer, viewportX,
                         viewportY, connected, sent>>
       /\ JoinRequestsIn(sent') <= 1]_vars

\* a join failure that arrived when the roster was not empty
C12_Witness ==
    /\ IsJoinResult(lastEvent, FALSE)
    /\ players # <<>>
    /\ myPlayerId # NullId
    /\ sent = <<JoinRequest>>


(***************************************************************************)
(* Payloads the handler cannot process (SpecMalformed).                    *)
(***************************************************************************)
NextMalformed ==
    \/ SocketOpen \/ SocketClose
    \/ RecvPlayerJoined(RosterRecs)
    \/ RecvPlayerJoinedPartial(RosterRecs)
    \/ RecvPlayerLeft \/ RecvMalformed

SpecMalformed == InitFixedWindow /\ [][NextMalformed]_vars

\* the payloads JSON.parse rejects or whose handling raises an error
IsMalformed(data) ==
    \/ "action" \notin DOMAIN data
    \/ /\ data.action = "player_joined"
       /\ \/ "player" \notin DOMAIN data
          \/ "avatar" \notin DOMAIN data

\* C13: a payload that cannot be parsed, or whose handling raises an error,
\* leaves the connection flag ready and leaves players, avatars and the
\* local id exactly as they were.
C13_MalformedPayloadDropped ==
    [][(lastEvent'.type = "message" /\ IsMalformed(lastEvent'.data))
       => /\ connected'
          /\ UNCHANGED <<players, avatars, myPlayerId>>]_vars


(***************************************************************************)
(* More properties of the keyboard and the connection (SpecInput).         *)
(***************************************************************************)
\* C14: once the channel has closed it stays closed, the connection flag
\* stays false and nothing more is sent, whatever key events follow.
C14_DisconnectionIsTerminal ==
    [][socketState = "CLOSED"
       => /\ socketState' = "CLOSED"
          /\ ~connected'
          /\ sent' = sent]_vars

\* the channel closed after two commands and an arrow key was pressed since
C14_Witness ==
    /\ socketState = "CLOSED"
    /\ lastEvent.type = "keydown"
    /\ lastEvent.key \in ArrowKeys
    /\ Len(sent) = 3
    /\ keysPressed # {}

\* C17: while connected, every press of a directional key sends exactly one
\* move command for that key's direction and records the key as held, held
\* already or not; whenever the last message sent is a move command, its
\* direction is the last-sent direction.
C17_EveryPressSendsMove ==
    [][/\ (/\ connected
           /\ lastEvent'.type = "keydown"
           /\ lastEvent'.key \in ArrowKeys)
          => /\ sent' = Append(sent, MoveCommand(KeyDirection(lastEvent'.key)))
             /\ keysPressed' = keysPressed \cup {lastEvent'.key}
             /\ currentDirection' = KeyDirection(lastEvent'.key)
       /\ (Len(sent') > 0 /\ sent'[Len(sent')].action = "move")
          => currentDirection' = sent'[Len(sent')].direction]_vars

\* Up pressed twice in a row, then Left while Up is still held
C17_Witness ==
    /\ connected
    /\ lastEvent = [key |-> "ArrowLeft", type |-> "keydown"]
    /\ keysPressed = {"ArrowUp", "ArrowLeft"}
    /\ currentDirection = "left"
    /\ sent = <<JoinRequest, MoveCommand("up"), MoveCommand("up"),
                MoveCommand("left")>>

\* C20: the last-sent direction is null exactly when no key is recorded as
\* held.
C20_NoDirectionIffNoKeyHeld ==
    (currentDirection = NoDirection) <=> (keysPressed = {})

\* one of two held keys was released, then the channel closed
C20_Witness ==
    /\ socketState = "CLOSED"
    /\ Cardinality(keysPressed) = 1
    /\ currentDirection # NoDirection
    /\ KeyDirection(CHOOSE key \in keysPressed : TRUE) # currentDirection


(***************************************************************************)
(* Decoding of avatar frames (SpecDecode).                                 *)
(***************************************************************************)
DecodeMaps    == PlayerMaps(PlayerRecs({Near}, {"dog"}))
DecodeAvatars == AvatarMaps({"dog"})

NextDecode ==
    \/ SocketOpen \/ SocketClose
    \/ RecvJoinGame(DecodeMaps, DecodeAvatars)
    \/ RecvPlayerLeft
    \/ ImageDecoded
    \/ WorldImageLoaded

SpecDecode == InitFixedWindow /\ [][NextDecode]_vars

\* C15: when an avatar frame finishes decoding, the surface is redrawn at
\* that moment, so that a player whose frame had not been decoded at the
\* last draw is painted without any further event.
C15_DecodeTriggersRedraw ==
    [][lastEvent'.type = "decoded"
       => surface' = Drawn(worldImage, players, avatars,
                           [x |-> viewportX, y |-> viewportY], canvas,
                           complete', surface)]_vars


(***************************************************************************)
(* What each branch of the reducer does after its writes (SpecReducer).    *)
(***************************************************************************)
NextReducer ==
    \/ SocketOpen \/ SocketClose
    \/ RecvJoinGame(ViewMaps, {<<>>})
    \/ RecvJoinFailed
    \/ RecvPlayerJoined(ViewRecs)
    \/ RecvPlayersMoved(ViewMaps)
    \/ RecvPlayerLeft \/ RecvUnknown \/ RecvMalformed

SpecReducer == InitFixedWindow /\ [][NextReducer]_vars

\* the surface a draw() made at the end of the step leaves
RedrawnAfterStep ==
    surface' = Drawn(worldImage, players', avatars',
                     [x |-> viewportX', y |-> viewportY'], canvas', complete',
                     surface)

\* C16: a successful join_game and a players_moved recompute the viewport
\* from the local player and then redraw, the draw using the recomputed
\* offsets; a player_joined and a player_left redraw and leave the viewport
\* offsets as they were.
C16_ReducerRecomputesThenRedraws ==
    [][/\ (IsJoinResult(lastEvent', TRUE) \/ IsMessage(lastEvent', "players_moved"))
          => /\ [x |-> viewportX', y |-> viewportY']
                  = ViewportAfter(myPlayer', canvas, viewportX, viewportY)
             /\ RedrawnAfterStep
       /\ (IsMessage(lastEvent', "player_joined") \/ IsMessage(lastEvent', "player_left"))
          => /\ UNCHANGED <<viewportX, viewportY>>
             /\ RedrawnAfterStep]_vars

\* a join moved the viewport to the far corner and the draw of a later
\* player_left still used these offsets
C16_Witness ==
    /\ IsMessage(lastEvent, "player_left")
    /\ viewportX > 0
    /\ viewportY > 0
    /\ surface.viewport = [x |-> viewportX, y |-> viewportY]
    /\ surface.players # {}

\* C19: a message whose action is none of join_game, player_joined,
\* players_moved and player_left changes none of players, avatars, local id,
\* viewport offsets and connection flag, redraws nothing and sends nothing.
C19_UnknownActionIgnored ==
    [][(/\ lastEvent'.type = "message"
        /\ "action" \in DOMAIN lastEvent'.data
        /\ lastEvent'.data.action \notin
              {"join_game", "player_joined", "players_moved", "player_left"})
       => UNCHANGED <<players, avatars, myPlayerId, myPlayer, decodeCount,
                      viewportX, viewportY, connected, surface, sent>>]_vars

\* an unknown action arrived after a join that filled the roster
C19_Witness ==
    /\ lastEvent.type = "message"
    /\ lastEvent.data = [action |-> "ping"]
    /\ myPlayerId # NullId
    /\ players # <<>>
    /\ surface.cleared


(***************************************************************************)
(* Every kind of event interleaved, on small inputs (SpecEvents).          *)
(***************************************************************************)
EventKeys == {"ArrowUp", "a"}
EventMaps == PlayerMaps(PlayerRecs({Far}, {"dog"}))

NextEvents ==
    \/ SocketOpen \/ SocketClose
    \/ RecvJoinGame(EventMaps, {<<>>})
    \/ RecvPlayerLeft
    \/ Resize \/ WorldImageLoaded \/ WorldImageFailed
    \/ \E key \in EventKeys : handleKeyDown(key)
    \/ \E key \in EventKeys : handleKeyUp(key)

SpecEvents == Init /\ [][NextEvents]_vars

\* C18: players, avatars and the local id change only in steps of the
\* inbound-message handler: key presses and releases, resizes, the load or
\* failure of the background image with the draw it makes, and the opening
\* and closing of the channel leave them as they were.
C18_OnlyMessagesWriteWorld ==
    [][lastEvent'.type # "message"
       => UNCHANGED <<players, avatars, myPlayerId>>]_vars

\* a resize handled while a key is held, the roster is filled and the
\* background is loaded
C18_Witness ==
    /\ lastEvent.type = "resize"
    /\ players # <<>>
    /\ myPlayerId # NullId
    /\ keysPressed # {}
    /\ worldImage = "loaded"

====
